---- MODULE Spec2Model ----
(***************************************************************************)
(* Drivetrain + manipulation state machine of the VEX robot simulator.     *)
(*                                                                         *)
(* Lengths are integers in units of 0.025 m (ROBOT_LENGTH 0.35 m = 14,     *)
(* INTAKE_RANGE 0.35 m = 14, chassis start height 0.5 m = 20).  Distances  *)
(* are compared through their squares, which orders them as the floats'   *)
(* magnitudes are ordered.  Velocities are integers in m/s (rad/s).        *)
(* Time is counted in ticks of 1/120 s.                                    *)
(***************************************************************************)
EXTENDS Integers, Sequences, FiniteSets, TLC

VARIABLES
  mChassis,        \* Robot::mChassis is non-null
  chassisPose,     \* mChassis->getGlobalPose(): [p, q]
  blocks,          \* std::list<GameBlock> of main, in spawn order
  mHeldBlocks,     \* Robot::mHeldBlocks: sequence of [block, joint]
  joints,          \* every PxFixedJoint ever created: "live" / "released"
  jointFailures,   \* number of PxFixedJointCreate calls that returned null
  moves,           \* number of displacements done by the physics engine
  lastOp,          \* the most recent operation and the path it returned by
  mThrottleInput,  \* Robot::mThrottleInput (left side power)
  mTurnInput,      \* Robot::mTurnInput (right side power)
  mWheelJoints,    \* Robot::mWheelJoints: [vel, forceLimit] of each joint
  pc,              \* position of main's loop body
  dt,              \* main's dt of the current frame, clamped
  physicsAccumulator,
  framebufferResized,
  rWasPressed, bWasPressed, fWasPressed, gWasPressed,
  accStart,        \* the accumulator when the current frame's drain began
  calls,           \* the Update calls made by the current frame's drain
  inputStored,     \* robot.SetDriveInput has run in the current frame
  fAttempts,       \* Intake requests made during the current press of F
  gAttempts,       \* Outtake calls made during the current press of G
  fullAtPress,     \* the intake was full when the current press of F began
  resizedLast,     \* the frame before the current one ended at the resize
  stepDts,         \* the dt argument of each call recorded in calls
  physx,           \* PhysicsWorld's pointers: non-null or not
  released,        \* number of release() calls made on each engine object
  fault,           \* the null pointer the program dereferenced, or "none"
  stage            \* how far main has come: setup, session, shutdown

world == <<mChassis, chassisPose, blocks, mHeldBlocks, joints, jointFailures,
           moves>>
drive == <<mThrottleInput, mTurnInput, mWheelJoints>>
keys == <<rWasPressed, bWasPressed, fWasPressed, gWasPressed>>
presses == <<fAttempts, gAttempts, fullAtPress, resizedLast>>
engine == <<physx, released, fault, stage>>
ghost == <<inputStored, presses, stepDts, engine>>
frame == <<pc, dt, physicsAccumulator, framebufferResized, keys, accStart,
           calls, ghost>>

vars == <<world, lastOp, drive, frame>>

----------------------------------------------------------------------------
(* Bounds of the exploration *)

MaxBlocks == 2
MaxJoints == 3
MaxJointFailures == 1
MaxMoves == 1

\* the exploration that fills the intake: no engine motion, more blocks
MaxFullBlocks == 9
MaxFullJoints == 8

\* the exploration of the drivetrain interface: |left|, |right| <= MaxInput
MaxInput == 2

\* the exploration of main's frames
MaxFrameBlocks == 2
MaxFrameJoints == 2

\* the exploration of the key debounce, up to a full intake
MaxPressBlocks == 8
MaxPressJoints == 8

\* the exploration of all the robot's operations together
MaxRobotBlocks == 1
MaxRobotJoints == 2

\* the exploration of a whole session, from setup to shutdown
MaxSetupBlocks == 1
MaxSetupJoints == 1

\* the exploration of the filter shader: filter words 0..MaxFilterWord
MaxFilterWord == 7

----------------------------------------------------------------------------
(* Program constants *)

MAX_HELD_BLOCKS == 8
ROBOT_LENGTH == 14
INTAKE_RANGE == 14

DRIVE_TORQUE == 500
maxVelocity == 20

\* physicsTimestep = 1/60 s and the dt clamp 0.1 s, in ticks of 1/120 s
physicsTimestep == 2
DtClamp == 12

eGROUND == 1
eCHASSIS == 2
eWHEEL == 4
eOBSTACLE == 8
eBLOCK == 16

----------------------------------------------------------------------------
(* PxU32 bit operations on filter words *)

RECURSIVE BitAnd(_, _)
BitAnd(a, b) ==
  IF a = 0 \/ b = 0 THEN 0
  ELSE (IF a % 2 = 1 /\ b % 2 = 1 THEN 1 ELSE 0) + 2 * BitAnd(a \div 2, b \div 2)

RECURSIVE BitOr(_, _)
BitOr(a, b) ==
  IF a = 0 THEN b
  ELSE IF b = 0 THEN a
  ELSE (IF a % 2 = 1 \/ b % 2 = 1 THEN 1 ELSE 0) + 2 * BitOr(a \div 2, b \div 2)

----------------------------------------------------------------------------
(* PxVec3 / PxQuat / PxTransform *)

PxVec3Zero == <<0, 0, 0>>

VAdd(a, b) == <<a[1] + b[1], a[2] + b[2], a[3] + b[3]>>
VSub(a, b) == <<a[1] - b[1], a[2] - b[2], a[3] - b[3]>>
VScale(a, k) == <<a[1] * k, a[2] * k, a[3] * k>>

\* PxVec3::magnitude(), squared
Mag2(a) == a[1] * a[1] + a[2] * a[2] + a[3] * a[3]

\* Orientations the chassis takes: identity, quarter and half turn about the
\* vertical axis, and tipped so that the local forward axis points up.
Quats == {"I", "Yaw90", "Yaw180", "PitchUp"}

\* PxQuat::rotate
Rotate(q, v) ==
  CASE q = "I"       -> v
    [] q = "Yaw90"   -> <<v[3], v[2], -v[1]>>
    [] q = "Yaw180"  -> <<-v[1], v[2], -v[3]>>
    [] q = "PitchUp" -> <<v[1], v[3], -v[2]>>

\* PxTransform::transform(PxVec3)
Transform(pose, v) == VAdd(pose.p, Rotate(pose.q, v))

----------------------------------------------------------------------------
(* Collision filtering: SimulationFilter.h *)

\* the filter data SpawnBlock gives to a block
BlockWord0 == eBLOCK
BlockWord1 ==
  BitOr(eGROUND, BitOr(eCHASSIS, BitOr(eWHEEL, BitOr(eOBSTACLE, eBLOCK))))

\* a shader that lets a pair collide when either side accepts the other
VehicleFilterShader_Or(trigger0, w00, w01, trigger1, w10, w11) ==
  IF trigger0 \/ trigger1 THEN "trigger"
  ELSE IF BitAnd(w00, w11) # 0 \/ BitAnd(w10, w01) # 0 THEN "contact"
  ELSE "suppress"

\* VehicleFilterShader: "trigger" | "contact" | "suppress"
VehicleFilterShader(trigger0, w00, w01, trigger1, w10, w11) ==
  IF trigger0 \/ trigger1 THEN "trigger"
  ELSE IF BitAnd(w00, w11) # 0 /\ BitAnd(w10, w01) # 0 THEN "contact"
  ELSE "suppress"

\* VehicleFilterShader: the pair flags it writes on each path
PairFlags(outcome) ==
  CASE outcome = "trigger"  -> {"eTRIGGER_DEFAULT"}
    [] outcome = "contact"  -> {"eCONTACT_DEFAULT", "eNOTIFY_TOUCH_FOUND"}
    [] outcome = "suppress" -> {}

\* VehicleFilterShader: the filter flag it returns on each path
FilterFlag(outcome) ==
  IF outcome = "suppress" THEN "eSUPPRESS" ELSE "eDEFAULT"

\* SetActorFilter(fieldBody, ...) of main
GroundFilter ==
  [kind |-> "Ground", trigger |-> FALSE, word0 |-> eGROUND,
   word1 |-> BitOr(eCHASSIS, BitOr(eWHEEL, BitOr(eOBSTACLE, eBLOCK)))]

\* SetActorFilter(mChassis, ...) of Robot::Initialize
ChassisFilter ==
  [kind |-> "Chassis", trigger |-> FALSE, word0 |-> eCHASSIS,
   word1 |-> BitOr(eGROUND, BitOr(eOBSTACLE, BitOr(eCHASSIS, eBLOCK)))]

\* a wheel filter whose mask also holds the chassis
WheelFilter_WithChassis ==
  [kind |-> "Wheel", trigger |-> FALSE, word0 |-> eWHEEL,
   word1 |-> BitOr(eGROUND, BitOr(eOBSTACLE, BitOr(eBLOCK, eCHASSIS)))]

\* SetActorFilter(wheelActor, ...) of Robot::CreateWheels
WheelFilter ==
  [kind |-> "Wheel", trigger |-> FALSE, word0 |-> eWHEEL,
   word1 |-> BitOr(eGROUND, BitOr(eOBSTACLE, eBLOCK))]

\* the filter data a block's shape carries now
BlockFilter(b) ==
  [kind |-> "Piece", trigger |-> FALSE, word0 |-> b.word0, word1 |-> b.word1]

----------------------------------------------------------------------------
(* Robot *)

\* a capacity test that is off by one
IsIntakeFull_OffByOne == Len(mHeldBlocks) > MAX_HELD_BLOCKS

\* Robot::IsIntakeFull
IsIntakeFull == Len(mHeldBlocks) >= MAX_HELD_BLOCKS

\* a front position that does not test the chassis
GetFrontPosition_Unguarded ==
  Transform(chassisPose, <<0, 0, ROBOT_LENGTH \div 2 + 2>>)

\* Robot::GetFrontPosition; the clearance 0.05 m is 2 units
GetFrontPosition ==
  IF ~mChassis THEN PxVec3Zero
  ELSE Transform(chassisPose, <<0, 0, ROBOT_LENGTH \div 2 + 2>>)

\* SpawnBlock of main.cpp: a free block at rest with the block filter row
SpawnBlock(position) ==
  [body |-> TRUE, held |-> FALSE, p |-> position, q |-> "I",
   linVel |-> PxVec3Zero, angVel |-> PxVec3Zero,
   word0 |-> BlockWord0, word1 |-> BlockWord1]

\* the spawn position of main: 0.3 m (12 units) above the front position
SpawnPos == VAdd(GetFrontPosition, <<0, 12, 0>>)

\* a search that also looks at held blocks
IsCandidate_IgnoresHeld(b) == b.body

\* main's test for a block the search looks at (not held, body non-null)
IsCandidate(b) == ~(b.held \/ ~b.body)

\* bestDist = 999.0f of main's search, squared, in units of 0.025 m
BestDistInit2 == (999 * 40) * (999 * 40)

\* a search in which a later block at the same distance replaces the best
RECURSIVE NearestFrom_LastMin(_, _, _)
NearestFrom_LastMin(i, bestDist2, bestBlock) ==
  IF i > Len(blocks) THEN bestBlock
  ELSE IF ~IsCandidate(blocks[i])
       THEN NearestFrom_LastMin(i + 1, bestDist2, bestBlock)
       ELSE LET dist2 == Mag2(VSub(GetFrontPosition, blocks[i].p))
            IN IF dist2 <= bestDist2
               THEN NearestFrom_LastMin(i + 1, dist2, i)
               ELSE NearestFrom_LastMin(i + 1, bestDist2, bestBlock)

\* main's search for the nearest block: the loop over blocks from index i on,
\* carrying bestDist (squared) and bestBlock (0 is nullptr)
RECURSIVE NearestFrom(_, _, _)
NearestFrom(i, bestDist2, bestBlock) ==
  IF i > Len(blocks) THEN bestBlock
  ELSE IF ~IsCandidate(blocks[i])
       THEN NearestFrom(i + 1, bestDist2, bestBlock)
       ELSE LET dist2 == Mag2(VSub(GetFrontPosition, blocks[i].p))
            IN IF dist2 < bestDist2
               THEN NearestFrom(i + 1, dist2, i)
               ELSE NearestFrom(i + 1, bestDist2, bestBlock)

NearestBlock == NearestFrom(1, BestDistInit2, 0)

\* the outcome of a call that changed nothing
Unchanged(why) ==
  [blocks |-> blocks, held |-> mHeldBlocks, joints |-> joints,
   ret |-> FALSE, why |-> why]

\* TryIntake's distance from the front position to blocks[i], squared
IntakeDist2(i) == Mag2(VSub(GetFrontPosition, blocks[i].p))

\* a rejection test that rejects nothing
OutOfRange_Never(dist2) == FALSE

\* a rejection test that also rejects the boundary
OutOfRange_Boundary(dist2) == dist2 >= INTAKE_RANGE * INTAKE_RANGE

\* TryIntake's rejection test: dist > INTAKE_RANGE
OutOfRange(dist2) == dist2 > INTAKE_RANGE * INTAKE_RANGE

\* TryIntake: teleport the block to the chassis centre, at rest
TeleportToHold(b) ==
  [b EXCEPT !.p = Transform(chassisPose, PxVec3Zero), !.q = chassisPose.q,
            !.linVel = PxVec3Zero, !.angVel = PxVec3Zero]

\* TryIntake: zero filter data while held
DisableCollision(b) == [b EXCEPT !.word0 = 0, !.word1 = 0]

\* an intake that forgets to set the held flag
MarkHeld_Forgotten(b) == b

\* TryIntake: block.held = true
MarkHeld(b) == [b EXCEPT !.held = TRUE]

\* TryIntake: mHeldBlocks.push_back(hb)
PushBack(held, hb) == Append(held, hb)

\* Robot::TryIntake on blocks[i]; jointOk: PxFixedJointCreate returned a joint
TryIntake(i, jointOk) ==
  IF ~mChassis \/ blocks[i].held \/ ~blocks[i].body THEN Unchanged("guard")
  ELSE IF IsIntakeFull THEN Unchanged("full")
  ELSE IF OutOfRange(IntakeDist2(i)) THEN Unchanged("range")
  ELSE
    LET moved == DisableCollision(TeleportToHold(blocks[i]))
    IN IF jointOk
       THEN [blocks |-> [blocks EXCEPT ![i] = MarkHeld(moved)],
             held |-> PushBack(mHeldBlocks,
                               [block |-> i, joint |-> Len(joints) + 1]),
             joints |-> Append(joints, "live"),
             ret |-> TRUE, why |-> "ok"]
       ELSE [blocks |-> [blocks EXCEPT ![i] = moved],
             held |-> mHeldBlocks, joints |-> joints,
             ret |-> FALSE, why |-> "jointfail"]

\* the intake request of main (body of the F edge)
IntakeRequest(jointOk) ==
  IF IsIntakeFull THEN Unchanged("full")
  ELSE IF NearestBlock = 0 THEN Unchanged("nofree")
  ELSE TryIntake(NearestBlock, jointOk)

\* an Outtake that ejects the block of the oldest record
Back_Oldest(held) == held[1]

\* Outtake: HeldBlock hb = mHeldBlocks.back()
Back(held) == held[Len(held)]

\* an Outtake that drops the oldest record instead
PopBack_Front(held) == SubSeq(held, 2, Len(held))

\* Outtake: mHeldBlocks.pop_back()
PopBack(held) == SubSeq(held, 1, Len(held) - 1)

\* an Outtake that drops the record and leaves its joint in the scene
ReleaseJoint_Leaked(js, j) == js

\* Outtake: hb.joint->release()
ReleaseJoint(js, j) == [js EXCEPT ![j] = "released"]

\* Outtake: the chassis forward axis
Forward == Rotate(chassisPose.q, <<0, 0, 1>>)

\* an eject position that keeps the height the forward axis gives it
EjectPos_HeightFree ==
  VAdd(chassisPose.p, VScale(Forward, ROBOT_LENGTH \div 2 + 6))

\* Outtake: the eject position; the offset 0.15 m is 6 units
EjectPos ==
  LET eject == VAdd(chassisPose.p, VScale(Forward, ROBOT_LENGTH \div 2 + 6))
  IN <<eject[1], chassisPose.p[2], eject[3]>>

\* Outtake: teleport to the front of the robot, with the forward nudge that
\* overwrites the zeroed linear velocity
TeleportToFront(b) ==
  [b EXCEPT !.p = EjectPos, !.q = chassisPose.q,
            !.linVel = VScale(Forward, 1), !.angVel = PxVec3Zero]

\* a restore that leaves the wheels out of the mask
RestoreCollision_NoWheel(b) ==
  [b EXCEPT !.word0 = eBLOCK,
            !.word1 = BitOr(eGROUND, BitOr(eCHASSIS,
                        BitOr(eOBSTACLE, eBLOCK)))]

\* Outtake: re-enable collision
RestoreCollision(b) ==
  [b EXCEPT !.word0 = eBLOCK,
            !.word1 = BitOr(eGROUND, BitOr(eCHASSIS,
                        BitOr(eOBSTACLE, BitOr(eBLOCK, eWHEEL))))]

\* an Outtake that forgets to clear the held flag
MarkFree_Forgotten(b) == b

\* Outtake: hb.block->held = false
MarkFree(b) == [b EXCEPT !.held = FALSE]

\* Robot::Outtake
OuttakeResult ==
  IF mHeldBlocks = <<>> THEN Unchanged("empty")
  ELSE
    LET hb == Back(mHeldBlocks)
        rest == PopBack(mHeldBlocks)
    IN IF hb.block = 0 \/ ~blocks[hb.block].body
       THEN [Unchanged("nobody") EXCEPT !.held = rest]
       ELSE [blocks |-> [blocks EXCEPT ![hb.block] =
                           MarkFree(RestoreCollision(TeleportToFront(@)))],
             held |-> rest,
             joints |-> IF hb.joint # 0
                        THEN ReleaseJoint(joints, hb.joint)
                        ELSE joints,
             ret |-> TRUE, why |-> "ok"]

\* Robot::Outtake reads mChassis->getGlobalPose() without a test: with a
\* record to eject and no chassis the call dereferences a null pointer
OuttakeFaults ==
  /\ mHeldBlocks # <<>>
  /\ Back(mHeldBlocks).block # 0
  /\ ~mChassis

\* glm::mat4(1.0f), entries in hundredths
Identity4 ==
  <<<<100, 0, 0, 0>>, <<0, 100, 0, 0>>, <<0, 0, 100, 0>>, <<0, 0, 0, 100>>>>

\* Robot::GetTransformMatrix: translation * rotation * scale, as rows with
\* entries in hundredths; visualScale is given in hundredths (0.01f is 1)
GetTransformMatrix(visualScale) ==
  IF ~mChassis THEN Identity4
  ELSE LET cx == Rotate(chassisPose.q, <<1, 0, 0>>)
           cy == Rotate(chassisPose.q, <<0, 1, 0>>)
           cz == Rotate(chassisPose.q, <<0, 0, 1>>)
       IN [r \in 1..4 |->
            IF r = 4 THEN <<0, 0, 0, 100>>
            ELSE <<cx[r] * visualScale, cy[r] * visualScale,
                   cz[r] * visualScale, 100 * chassisPose.p[r]>>]

----------------------------------------------------------------------------
(* The physics engine: what a step of PxScene::simulate may do to the bodies *)

StartPose == [p |-> <<0, 20, 0>>, q |-> "I"]

ChassisPoses ==
  {[p |-> <<0, 20, 4>>, q |-> "I"],
   [p |-> <<2, 20, 0>>, q |-> "Yaw90"],
   [p |-> <<0, 22, 0>>, q |-> "PitchUp"]}

\* where, and how fast, a free block may be found after a step
BlockMotions ==
  {[p |-> <<0, 20, 10>>, linVel |-> PxVec3Zero, angVel |-> <<1, 0, 0>>],
   [p |-> <<0, 20, 23>>, linVel |-> PxVec3Zero, angVel |-> PxVec3Zero],
   [p |-> <<0, 20, 24>>, linVel |-> <<0, 0, 1>>, angVel |-> <<1, 0, 0>>]}

\* a held block is kept at the chassis by its fixed joint
FollowChassis(bs, pose) ==
  [i \in 1..Len(bs) |->
     IF bs[i].held THEN [bs[i] EXCEPT !.p = pose.p, !.q = pose.q] ELSE bs[i]]

----------------------------------------------------------------------------
(* Drivetrain *)

Max(a, b) == IF a > b THEN a ELSE b
Min(a, b) == IF a < b THEN a ELSE b

\* an Update that does not clamp
ClampInput_None(x) == x

\* Robot::Update: std::max(-1.0f, std::min(1.0f, input))
ClampInput(x) == Max(-1, Min(1, x))

\* Robot::CreateWheels: 2 sides x 4 wheels, each joint with drive velocity 0
\* and the torque limit
CreateWheels ==
  [i \in 1..(2 * 4) |-> [vel |-> 0, forceLimit |-> DRIVE_TORQUE]]

\* Robot::mWheels: one wheel body pushed for each joint by CreateWheels and
\* by nothing else
mWheels ==
  IF mChassis THEN [i \in 1..(2 * 4) |-> "wheel"] ELSE <<>>

\* an Update that counts only three joints to the left side
UpdateJoints_ThreeLeft ==
  IF ~mChassis THEN mWheelJoints
  ELSE [i \in 1..Len(mWheelJoints) |->
          [vel |-> (IF i - 1 < 3 THEN ClampInput(mThrottleInput)
                                 ELSE ClampInput(mTurnInput)) * maxVelocity,
           forceLimit |-> DRIVE_TORQUE]]

\* Robot::Update: the joints after the call (indices 0..3 are the left side)
UpdateJoints ==
  IF ~mChassis THEN mWheelJoints
  ELSE [i \in 1..Len(mWheelJoints) |->
          [vel |-> (IF i - 1 < 4 THEN ClampInput(mThrottleInput)
                                 ELSE ClampInput(mTurnInput)) * maxVelocity,
           forceLimit |-> DRIVE_TORQUE]]

----------------------------------------------------------------------------
(* PhysicsWorld *)

\* the engine objects PhysicsWorld creates and releases
EngineObjects ==
  {"mScene", "mDispatcher", "mPhysics", "mPvd", "transport", "mFoundation"}

\* the members of PhysicsWorld.h, all nullptr, and the PVD transport
NullPhysX ==
  [mFoundation |-> FALSE, mPvd |-> FALSE, transport |-> FALSE,
   mPhysics |-> FALSE, mDispatcher |-> FALSE, mScene |-> FALSE,
   mMaterial |-> FALSE]

\* PhysicsWorld::Initialize returned at "PxCreateFoundation failed!"
FoundationFailed == NullPhysX

\* PhysicsWorld::Initialize returned at "PxCreatePhysics failed!"
PhysicsFailed ==
  [NullPhysX EXCEPT !.mFoundation = TRUE, !.mPvd = TRUE, !.transport = TRUE]

\* PhysicsWorld::Initialize ran to its end
InitializedPhysX ==
  [mFoundation |-> TRUE, mPvd |-> TRUE, transport |-> TRUE,
   mPhysics |-> TRUE, mDispatcher |-> TRUE, mScene |-> TRUE,
   mMaterial |-> TRUE]

NothingReleased == [o \in EngineObjects |-> 0]

----------------------------------------------------------------------------
(* Operations on the world *)

Init ==
  /\ mChassis \in BOOLEAN
  /\ chassisPose = StartPose
  /\ blocks = <<>>
  /\ mHeldBlocks = <<>>
  /\ joints = <<>>
  /\ jointFailures = 0
  /\ moves = 0
  /\ lastOp = [op |-> "Init", why |-> "ok", block |-> 0, dist2 |-> 0]
  /\ mThrottleInput = 0
  /\ mTurnInput = 0
  /\ mWheelJoints = IF mChassis THEN CreateWheels ELSE <<>>
  /\ pc = "poll"
  /\ dt = 0
  /\ physicsAccumulator = 0
  /\ framebufferResized = FALSE
  /\ rWasPressed = FALSE /\ bWasPressed = FALSE
  /\ fWasPressed = FALSE /\ gWasPressed = FALSE
  /\ accStart = 0
  /\ calls = <<>>
  /\ inputStored = FALSE
  /\ fAttempts = 0 /\ gAttempts = 0
  /\ fullAtPress = FALSE
  /\ resizedLast = FALSE
  /\ stepDts = <<>>
  /\ physx = InitializedPhysX
  /\ released = NothingReleased
  /\ fault = "none"
  /\ stage = "session"

\* blocks.push_back(SpawnBlock(...)) of main
DoSpawn(maxBlocks) ==
  /\ Len(blocks) < maxBlocks
  /\ blocks' = Append(blocks, SpawnBlock(SpawnPos))
  /\ lastOp' = [op |-> "Spawn", why |-> "ok", block |-> Len(blocks) + 1,
                dist2 |-> 0]
  /\ UNCHANGED <<mChassis, chassisPose, mHeldBlocks, joints, jointFailures,
                 moves>>

\* the intake request of main, with the answer of PxFixedJointCreate
DoIntake(maxJoints, maxFailures) ==
  \E jointOk \in BOOLEAN :
    LET r == IntakeRequest(jointOk)
    IN /\ r.why = "ok" => Len(joints) < maxJoints
       /\ ~jointOk => jointFailures < maxFailures
       /\ r.why \notin {"ok", "jointfail"} => jointOk
       /\ blocks' = r.blocks
       /\ mHeldBlocks' = r.held
       /\ joints' = r.joints
       /\ jointFailures' = IF r.why = "jointfail" THEN jointFailures + 1
                           ELSE jointFailures
       /\ lastOp' = [op |-> "Intake", why |-> r.why,
                     block |-> IF r.why \in {"full", "nofree"}
                               THEN 0 ELSE NearestBlock,
                     dist2 |-> IF r.why \in {"ok", "jointfail", "range"}
                               THEN IntakeDist2(NearestBlock) ELSE 0]
       /\ UNCHANGED <<mChassis, chassisPose, moves>>

\* robot.Outtake()
DoOuttake ==
  LET r == OuttakeResult
  IN /\ blocks' = r.blocks
     /\ mHeldBlocks' = r.held
     /\ joints' = r.joints
     /\ lastOp' = [op |-> "Outtake", why |-> r.why,
                   block |-> IF r.why = "ok"
                             THEN Back(mHeldBlocks).block ELSE 0,
                   dist2 |-> 0]
     /\ UNCHANGED <<mChassis, chassisPose, jointFailures, moves>>

\* PhysicsWorld::Update: the chassis is driven to another pose
DoMoveChassis(maxMoves) ==
  /\ mChassis
  /\ moves < maxMoves
  /\ \E pose \in ChassisPoses :
       /\ pose # chassisPose
       /\ chassisPose' = pose
       /\ blocks' = FollowChassis(blocks, pose)
  /\ moves' = moves + 1
  /\ lastOp' = [op |-> "Physics", why |-> "ok", block |-> 0, dist2 |-> 0]
  /\ UNCHANGED <<mChassis, mHeldBlocks, joints, jointFailures>>

\* PhysicsWorld::Update: one free block is carried somewhere
DoMoveBlock(maxMoves) ==
  /\ moves < maxMoves
  /\ \E i \in 1..Len(blocks) : \E m \in BlockMotions :
       /\ ~blocks[i].held
       /\ blocks' = [blocks EXCEPT ![i] = [@ EXCEPT !.p = m.p,
                                                    !.linVel = m.linVel,
                                                    !.angVel = m.angVel]]
       /\ lastOp' = [op |-> "Physics", why |-> "ok", block |-> i,
                     dist2 |-> 0]
  /\ moves' = moves + 1
  /\ UNCHANGED <<mChassis, chassisPose, mHeldBlocks, joints, jointFailures>>

\* PhysicsWorld::Update: every body stays where it is
DoRest ==
  /\ lastOp' = [op |-> "Physics", why |-> "ok", block |-> 0, dist2 |-> 0]
  /\ UNCHANGED world

\* a setter that also writes the joints' targets
DoSetDriveInput_Eager(left, right) ==
  /\ mThrottleInput' = left
  /\ mTurnInput' = right
  /\ mWheelJoints' =
       [i \in 1..Len(mWheelJoints) |->
          [mWheelJoints[i] EXCEPT
             !.vel = (IF i - 1 < 4 THEN ClampInput(left)
                                   ELSE ClampInput(right)) * maxVelocity]]

\* Robot::SetDriveInput
DoSetDriveInput(left, right) ==
  /\ mThrottleInput' = left
  /\ mTurnInput' = right
  /\ UNCHANGED mWheelJoints

\* Robot::Update
DoUpdate ==
  /\ mWheelJoints' = UpdateJoints
  /\ UNCHANGED <<mThrottleInput, mTurnInput>>

----------------------------------------------------------------------------
(* The manipulation operations, in any order, with the engine moving bodies *)

Spawn == DoSpawn(MaxBlocks) /\ UNCHANGED <<drive, frame>>

Intake == DoIntake(MaxJoints, MaxJointFailures) /\ UNCHANGED <<drive, frame>>

Outtake == DoOuttake /\ UNCHANGED <<drive, frame>>

PhysicsMoveChassis == DoMoveChassis(MaxMoves) /\ UNCHANGED <<drive, frame>>

PhysicsMoveBlock == DoMoveBlock(MaxMoves) /\ UNCHANGED <<drive, frame>>

Next ==
  \/ Spawn
  \/ Intake
  \/ Outtake
  \/ PhysicsMoveChassis
  \/ PhysicsMoveBlock

Spec == Init /\ [][Next]_vars

\* the same operations without engine motion, up to a full intake
SpawnFull == DoSpawn(MaxFullBlocks) /\ UNCHANGED <<drive, frame>>

IntakeFull == DoIntake(MaxFullJoints, MaxJointFailures) /\ UNCHANGED <<drive, frame>>

NextFull ==
  \/ SpawnFull
  \/ IntakeFull
  \/ Outtake

SpecFull == Init /\ [][NextFull]_vars

----------------------------------------------------------------------------
(* The drivetrain interface: SetDriveInput with any values, and Update *)

SetDriveInput ==
  \E left, right \in (0 - MaxInput)..MaxInput :
    /\ DoSetDriveInput(left, right)
    /\ lastOp' = [op |-> "SetDriveInput", why |-> "ok",
                  left |-> left, right |-> right]
    /\ UNCHANGED <<world, frame>>

Update ==
  /\ DoUpdate
  /\ lastOp' = [op |-> "Update", why |-> IF mChassis THEN "ok" ELSE "inert"]
  /\ UNCHANGED <<world, frame>>

NextDrive ==
  \/ SetDriveInput
  \/ Update

SpecDrive == Init /\ [][NextDrive]_vars

----------------------------------------------------------------------------
(* main's loop body, one frame after the other.  In this exploration the    *)
(* engine creates every joint it is asked for and leaves the bodies at rest. *)

\* elapsed wall time since the previous frame, in ticks
ElapsedTicks == {1, 5, 13}

\* the drive keys found pressed in a frame
DriveKeySets == {{}, {"D", "Z"}, {"A", "C"}}

\* a delta time that is not clamped
ClampDt_None(elapsed) == elapsed

\* if (dt > 0.1f) dt = 0.1f
ClampDt(elapsed) == IF elapsed > DtClamp THEN DtClamp ELSE elapsed

\* leftInput / rightInput of main from the keys A, D, Z, C
LeftInput(ks) ==
  (IF "D" \in ks THEN 1 ELSE 0) - (IF "C" \in ks THEN 1 ELSE 0)
RightInput(ks) ==
  (IF "A" \in ks THEN 1 ELSE 0) - (IF "Z" \in ks THEN 1 ELSE 0)

\* a drain that steps by the frame time
StepArgument_FrameTime == dt

\* the argument of robot.Update(physicsTimestep), physics.Update(physicsTimestep)
StepArgument == physicsTimestep

\* a drain that needs more than one step in the accumulator
DrainHasStep_Strict(acc) == acc > physicsTimestep

\* while (physicsAccumulator >= physicsTimestep)
DrainHasStep(acc) == acc >= physicsTimestep

\* glfwPollEvents (the resize callback may fire) and the delta time
FrameBegin ==
  /\ pc = "poll"
  /\ \E resized \in BOOLEAN : framebufferResized' = resized
  /\ \E elapsed \in ElapsedTicks : dt' = ClampDt(elapsed)
  /\ pc' = "input"
  /\ UNCHANGED <<world, lastOp, drive, physicsAccumulator, keys, accStart,
                 calls>>
  /\ inputStored' = FALSE
  /\ UNCHANGED <<presses, stepDts, engine>>

\* a resize branch that samples the intake key before it continues
FrameResize_SamplingKeys ==
  /\ pc = "input"
  /\ framebufferResized
  /\ framebufferResized' = FALSE
  /\ dt' = 0
  /\ pc' = "poll"
  /\ \E fPressed \in BOOLEAN : fWasPressed' = fPressed
  /\ UNCHANGED <<world, lastOp, drive, physicsAccumulator, rWasPressed,
                 bWasPressed, gWasPressed, accStart, calls>>
  /\ resizedLast' = TRUE
  /\ UNCHANGED <<inputStored, fAttempts, gAttempts, fullAtPress, stepDts,
                 engine>>

\* if (framebufferResized) { ...; continue; }  dt is local to the loop body
FrameResize ==
  /\ pc = "input"
  /\ framebufferResized
  /\ framebufferResized' = FALSE
  /\ dt' = 0
  /\ pc' = "poll"
  /\ UNCHANGED <<world, lastOp, drive, physicsAccumulator, keys, accStart,
                 calls>>
  /\ resizedLast' = TRUE
  /\ UNCHANGED <<inputStored, fAttempts, gAttempts, fullAtPress, stepDts,
                 engine>>

FrameDriveInput ==
  /\ pc = "input"
  /\ ~framebufferResized
  /\ \E ks \in DriveKeySets :
       /\ DoSetDriveInput(LeftInput(ks), RightInput(ks))
       /\ lastOp' = [op |-> "SetDriveInput", why |-> "ok",
                     left |-> LeftInput(ks), right |-> RightInput(ks)]
  /\ pc' = "spawnR"
  /\ UNCHANGED <<world, dt, physicsAccumulator, framebufferResized, keys,
                 accStart, calls>>
  /\ inputStored' = TRUE
  /\ UNCHANGED <<presses, stepDts, engine>>

FrameSpawnRed ==
  /\ pc = "spawnR"
  /\ \E rPressed \in BOOLEAN :
       /\ IF rPressed /\ ~rWasPressed
          THEN DoSpawn(MaxFrameBlocks)
          ELSE UNCHANGED <<world, lastOp>>
       /\ rWasPressed' = rPressed
  /\ pc' = "spawnB"
  /\ UNCHANGED <<drive, dt, physicsAccumulator, framebufferResized,
                 bWasPressed, fWasPressed, gWasPressed, accStart, calls>>
  /\ UNCHANGED ghost

FrameSpawnBlue ==
  /\ pc = "spawnB"
  /\ \E bPressed \in BOOLEAN :
       /\ IF bPressed /\ ~bWasPressed
          THEN DoSpawn(MaxFrameBlocks)
          ELSE UNCHANGED <<world, lastOp>>
       /\ bWasPressed' = bPressed
  /\ pc' = "intake"
  /\ UNCHANGED <<drive, dt, physicsAccumulator, framebufferResized,
                 rWasPressed, fWasPressed, gWasPressed, accStart, calls>>
  /\ UNCHANGED ghost

\* an F handler that passes over a frame in which a block was spawned
FrameIntake_SkippingNew ==
  /\ pc = "intake"
  /\ \E fPressed \in BOOLEAN :
       /\ IF fPressed /\ ~fWasPressed /\ ~IsIntakeFull /\ lastOp.op # "Spawn"
          THEN DoIntake(MaxFrameJoints, 0)
          ELSE UNCHANGED <<world, lastOp>>
       /\ fWasPressed' = fPressed
  /\ pc' = "outtake"
  /\ UNCHANGED <<drive, dt, physicsAccumulator, framebufferResized,
                 rWasPressed, bWasPressed, gWasPressed, accStart, calls>>
  /\ UNCHANGED ghost

FrameIntake ==
  /\ pc = "intake"
  /\ \E fPressed \in BOOLEAN :
       /\ IF fPressed /\ ~fWasPressed /\ ~IsIntakeFull
          THEN DoIntake(MaxFrameJoints, 0)
          ELSE UNCHANGED <<world, lastOp>>
       /\ fWasPressed' = fPressed
  /\ pc' = "outtake"
  /\ UNCHANGED <<drive, dt, physicsAccumulator, framebufferResized,
                 rWasPressed, bWasPressed, gWasPressed, accStart, calls>>
  /\ UNCHANGED ghost

\* a G handler that samples the key and leaves the Outtake for later
FrameOuttake_Deferred ==
  /\ pc = "outtake"
  /\ \E gPressed \in BOOLEAN : gWasPressed' = gPressed
  /\ pc' = "accumulate"
  /\ UNCHANGED <<world, lastOp, drive, dt, physicsAccumulator,
                 framebufferResized, rWasPressed, bWasPressed, fWasPressed,
                 accStart, calls, ghost>>

FrameOuttake ==
  /\ pc = "outtake"
  /\ \E gPressed \in BOOLEAN :
       /\ IF gPressed /\ ~gWasPressed
          THEN DoOuttake
          ELSE UNCHANGED <<world, lastOp>>
       /\ gWasPressed' = gPressed
  /\ pc' = "accumulate"
  /\ UNCHANGED <<drive, dt, physicsAccumulator, framebufferResized,
                 rWasPressed, bWasPressed, fWasPressed, accStart, calls>>
  /\ UNCHANGED ghost

\* physicsAccumulator += dt
FrameAccumulate ==
  /\ pc = "accumulate"
  /\ physicsAccumulator' = physicsAccumulator + dt
  /\ accStart' = physicsAccumulator + dt
  /\ calls' = <<>>
  /\ pc' = "drain"
  /\ UNCHANGED <<world, lastOp, drive, dt, framebufferResized, keys>>
  /\ stepDts' = <<>>
  /\ UNCHANGED <<inputStored, presses, engine>>

\* a drain step that goes to the physics step without robot.Update
DrainRobotUpdate_Skipped ==
  /\ pc = "drain"
  /\ DrainHasStep(physicsAccumulator)
  /\ pc' = "physics"
  /\ UNCHANGED <<world, lastOp, drive, dt, physicsAccumulator,
                 framebufferResized, keys, accStart, calls, ghost>>

\* robot.Update(physicsTimestep)
DrainRobotUpdate ==
  /\ pc = "drain"
  /\ DrainHasStep(physicsAccumulator)
  /\ DoUpdate
  /\ lastOp' = [op |-> "Update", why |-> IF mChassis THEN "ok" ELSE "inert"]
  /\ calls' = Append(calls, "Robot::Update")
  /\ pc' = "physics"
  /\ UNCHANGED <<world, dt, physicsAccumulator, framebufferResized, keys,
                 accStart>>
  /\ stepDts' = Append(stepDts, StepArgument)
  /\ UNCHANGED <<inputStored, presses, engine>>

\* physics.Update(physicsTimestep); physicsAccumulator -= physicsTimestep
DrainPhysicsUpdate ==
  /\ pc = "physics"
  /\ DoRest
  /\ physicsAccumulator' = physicsAccumulator - physicsTimestep
  /\ calls' = Append(calls, "PhysicsWorld::Update")
  /\ pc' = "drain"
  /\ UNCHANGED <<drive, dt, framebufferResized, keys, accStart>>
  /\ stepDts' = Append(stepDts, StepArgument)
  /\ UNCHANGED <<inputStored, presses, engine>>

\* the drain loop ends
DrainExit ==
  /\ pc = "drain"
  /\ ~DrainHasStep(physicsAccumulator)
  /\ pc' = "render"
  /\ UNCHANGED <<world, lastOp, drive, dt, physicsAccumulator,
                 framebufferResized, keys, accStart, calls>>
  /\ UNCHANGED ghost

\* camera input and rendering read the simulation and change none of it;
\* the loop body ends and with it the frame's dt and drain record
Render ==
  /\ pc = "render"
  /\ pc' = "poll"
  /\ dt' = 0
  /\ accStart' = 0
  /\ calls' = <<>>
  /\ UNCHANGED <<world, lastOp, drive, physicsAccumulator, framebufferResized,
                 keys>>
  /\ stepDts' = <<>>
  /\ resizedLast' = FALSE
  /\ UNCHANGED <<inputStored, fAttempts, gAttempts, fullAtPress, engine>>

NextFrame ==
  \/ FrameBegin
  \/ FrameResize
  \/ FrameDriveInput
  \/ FrameSpawnRed
  \/ FrameSpawnBlue
  \/ FrameIntake
  \/ FrameOuttake
  \/ FrameAccumulate
  \/ DrainRobotUpdate
  \/ DrainPhysicsUpdate
  \/ DrainExit
  \/ Render

SpecFrame == Init /\ [][NextFrame]_vars

\* main is one sequential loop: whenever it has a next statement it executes it
SpecFrameFair == SpecFrame /\ WF_vars(NextFrame)

----------------------------------------------------------------------------
(* The event section of main's loop body (R, B, F, G), frame after frame,   *)
(* up to a full intake.  The engine creates every joint and leaves the      *)
(* bodies at rest; the drive input, the drain and the rendering of a frame, *)
(* which touch neither the keys nor the blocks, are left out, and a resize  *)
(* frame, which leaves by continue before any key is sampled, is a          *)
(* stuttering step.                                                         *)

\* an F test that fires on every frame the key is down
IntakeEdge_Level(fPressed) == fPressed /\ ~IsIntakeFull

\* if (fPressed && !fWasPressed && !robot.IsIntakeFull())
IntakeEdge(fPressed) == fPressed /\ ~fWasPressed /\ ~IsIntakeFull

\* a G test that fires on every frame the key is down
OuttakeEdge_Level(gPressed) == gPressed

\* if (gPressed && !gWasPressed)
OuttakeEdge(gPressed) == gPressed /\ ~gWasPressed

PressBegin ==
  /\ pc = "poll"
  /\ pc' = "spawnR"
  /\ UNCHANGED <<world, lastOp, drive, dt, physicsAccumulator,
                 framebufferResized, keys, accStart, calls, ghost>>

PressSpawnRed ==
  /\ pc = "spawnR"
  /\ \E rPressed \in BOOLEAN :
       /\ IF rPressed /\ ~rWasPressed
          THEN DoSpawn(MaxPressBlocks)
          ELSE UNCHANGED <<world, lastOp>>
       /\ rWasPressed' = rPressed
  /\ pc' = "spawnB"
  /\ UNCHANGED <<drive, dt, physicsAccumulator, framebufferResized,
                 bWasPressed, fWasPressed, gWasPressed, accStart, calls,
                 ghost>>

PressSpawnBlue ==
  /\ pc = "spawnB"
  /\ \E bPressed \in BOOLEAN :
       /\ IF bPressed /\ ~bWasPressed
          THEN DoSpawn(MaxPressBlocks)
          ELSE UNCHANGED <<world, lastOp>>
       /\ bWasPressed' = bPressed
  /\ pc' = "intake"
  /\ UNCHANGED <<drive, dt, physicsAccumulator, framebufferResized,
                 rWasPressed, fWasPressed, gWasPressed, accStart, calls,
                 ghost>>

PressIntake ==
  /\ pc = "intake"
  /\ \E fPressed \in BOOLEAN :
       /\ IF IntakeEdge(fPressed)
          THEN DoIntake(MaxPressJoints, 0)
          ELSE UNCHANGED <<world, lastOp>>
       /\ fWasPressed' = fPressed
       /\ fAttempts' = IF ~fPressed THEN 0
                       ELSE IF IntakeEdge(fPressed) THEN fAttempts + 1
                       ELSE fAttempts
       /\ fullAtPress' = IF ~fPressed THEN FALSE
                         ELSE IF ~fWasPressed THEN IsIntakeFull
                         ELSE fullAtPress
  /\ pc' = "outtake"
  /\ UNCHANGED <<drive, dt, physicsAccumulator, framebufferResized,
                 rWasPressed, bWasPressed, gWasPressed, accStart, calls,
                 inputStored, gAttempts, resizedLast, stepDts, engine>>

PressOuttake ==
  /\ pc = "outtake"
  /\ \E gPressed \in BOOLEAN :
       /\ IF OuttakeEdge(gPressed)
          THEN DoOuttake
          ELSE UNCHANGED <<world, lastOp>>
       /\ gWasPressed' = gPressed
       /\ gAttempts' = IF ~gPressed THEN 0
                       ELSE IF OuttakeEdge(gPressed) THEN gAttempts + 1
                       ELSE gAttempts
  /\ pc' = "poll"
  /\ UNCHANGED <<drive, dt, physicsAccumulator, framebufferResized,
                 rWasPressed, bWasPressed, fWasPressed, accStart, calls,
                 inputStored, fAttempts, fullAtPress, resizedLast, stepDts,
                 engine>>

NextPress ==
  \/ PressBegin
  \/ PressSpawnRed
  \/ PressSpawnBlue
  \/ PressIntake
  \/ PressOuttake

SpecPress == Init /\ [][NextPress]_vars

----------------------------------------------------------------------------
(* The filter shader as the engine calls it: on pairs of the shapes of the  *)
(* scene, and on any pair of filter data                                    *)

\* the shapes of the scene with their filter data: the field, the chassis
\* and its wheels when the robot was initialized, and the blocks
SceneShapes ==
  {GroundFilter}
    \cup (IF mChassis THEN {ChassisFilter, WheelFilter} ELSE {})
    \cup {BlockFilter(blocks[i]) : i \in 1..Len(blocks)}

FilterWords == 0..MaxFilterWord

ProbeShapes ==
  [kind : {"Any"}, trigger : BOOLEAN, word0 : FilterWords, word1 : FilterWords]

\* one call of the shader on the pair (a, b)
DoFilter(op, a, b) ==
  LET outcome == VehicleFilterShader(a.trigger, a.word0, a.word1,
                                     b.trigger, b.word0, b.word1)
  IN lastOp' = [op |-> op, why |-> outcome, a |-> a, b |-> b,
                pairFlags |-> PairFlags(outcome), ret |-> FilterFlag(outcome)]

FilterScenePair ==
  /\ \E a, b \in SceneShapes : DoFilter("FilterScene", a, b)
  /\ UNCHANGED <<world, drive, frame>>

\* the shader asked once, about a pair of any filter data
FilterProbe ==
  /\ lastOp.op = "Init"
  /\ \E a, b \in ProbeShapes : DoFilter("FilterProbe", a, b)
  /\ UNCHANGED <<world, drive, frame>>

NextFilter ==
  \/ Spawn
  \/ FilterScenePair
  \/ FilterProbe

SpecFilter == Init /\ [][NextFilter]_vars

----------------------------------------------------------------------------
(* Every operation of the robot, in any order: the manipulation requests    *)
(* and the drivetrain interface, with the bodies at rest                    *)

RobotSpawn == DoSpawn(MaxRobotBlocks) /\ UNCHANGED <<drive, frame>>

RobotIntake ==
  DoIntake(MaxRobotJoints, MaxJointFailures) /\ UNCHANGED <<drive, frame>>

NextRobot ==
  \/ RobotSpawn
  \/ RobotIntake
  \/ Outtake
  \/ SetDriveInput
  \/ Update

SpecRobot == Init /\ [][NextRobot]_vars

----------------------------------------------------------------------------
(* A whole session of main: the setup of the engine and of the robot, the   *)
(* operations of the session, and the shutdown.  A member call through a    *)
(* null PxPhysics pointer is a virtual call through address 0: the process  *)
(* stops there, which the model records in fault and in the stage           *)
(* "crashed".                                                               *)

\* PhysicsWorld physics; Robot robot; as their constructors leave them
InitSetup ==
  /\ mChassis = FALSE
  /\ chassisPose = StartPose
  /\ blocks = <<>>
  /\ mHeldBlocks = <<>>
  /\ joints = <<>>
  /\ jointFailures = 0
  /\ moves = 0
  /\ lastOp = [op |-> "Init", why |-> "ok", block |-> 0, dist2 |-> 0]
  /\ mThrottleInput = 0
  /\ mTurnInput = 0
  /\ mWheelJoints = <<>>
  /\ pc = "poll"
  /\ dt = 0
  /\ physicsAccumulator = 0
  /\ framebufferResized = FALSE
  /\ rWasPressed = FALSE /\ bWasPressed = FALSE
  /\ fWasPressed = FALSE /\ gWasPressed = FALSE
  /\ accStart = 0
  /\ calls = <<>>
  /\ inputStored = FALSE
  /\ fAttempts = 0 /\ gAttempts = 0
  /\ fullAtPress = FALSE
  /\ resizedLast = FALSE
  /\ stepDts = <<>>
  /\ physx = NullPhysX
  /\ released = NothingReleased
  /\ fault = "none"
  /\ stage = "constructed"

\* everything but the engine record and the robot's construction
session == <<chassisPose, blocks, mHeldBlocks, joints, jointFailures, moves,
             lastOp, mThrottleInput, mTurnInput, pc, dt, physicsAccumulator,
             framebufferResized, keys, accStart, calls, inputStored, presses,
             stepDts>>

\* physics.Initialize(): it returns early when the foundation or the physics
\* object is null, and runs to its end otherwise
PhysicsInitialize ==
  /\ stage = "constructed"
  /\ physx' \in {FoundationFailed, PhysicsFailed, InitializedPhysX}
  /\ stage' = "initialized"
  /\ UNCHANGED <<session, mChassis, mWheelJoints, released, fault>>

\* main's field body: AssetLoader::CreateStaticBody calls
\* physics->createRigidStatic when the field model was loaded
CreateFieldBody ==
  /\ stage = "initialized"
  /\ \E loaded \in BOOLEAN :
       IF loaded /\ ~physx.mPhysics
       THEN fault' = "PxPhysics" /\ stage' = "crashed"
       ELSE fault' = fault /\ stage' = "field"
  /\ UNCHANGED <<session, mChassis, mWheelJoints, physx, released>>

\* robot.Initialize(physics.GetPhysics(), ...): its first statement is
\* physics->createRigidDynamic
RobotInitialize ==
  /\ stage = "field"
  /\ IF ~physx.mPhysics
     THEN /\ fault' = "PxPhysics"
          /\ stage' = "crashed"
          /\ UNCHANGED <<mChassis, mWheelJoints>>
     ELSE /\ \E created \in BOOLEAN :
               /\ mChassis' = created
               /\ mWheelJoints' = IF created THEN CreateWheels ELSE <<>>
          /\ fault' = fault
          /\ stage' = "session"
  /\ UNCHANGED <<session, physx, released>>

SetupSpawn ==
  /\ stage = "session"
  /\ DoSpawn(MaxSetupBlocks)
  /\ UNCHANGED <<drive, frame>>

SetupIntake ==
  /\ stage = "session"
  /\ DoIntake(MaxSetupJoints, MaxJointFailures)
  /\ UNCHANGED <<drive, frame>>

SetupOuttake ==
  /\ stage = "session"
  /\ Outtake

\* PhysicsWorld::Update: if (mScene) { simulate; fetchResults }
PhysicsWorldUpdate ==
  /\ stage = "session"
  /\ IF physx.mScene THEN DoRest ELSE UNCHANGED <<world, lastOp>>
  /\ UNCHANGED <<drive, frame>>

\* PhysicsWorld::Cleanup: release() on every member that is not null, and on
\* the transport of a non-null mPvd
CleanupReleases ==
  [o \in EngineObjects |-> released[o] + (IF physx[o] THEN 1 ELSE 0)]

\* PhysicsWorld::Cleanup: no member is set to null after its release
DoCleanup ==
  /\ released' = CleanupReleases
  /\ physx' = physx

\* physics.Cleanup() of main, once the loop has ended
MainCleanup ==
  /\ stage = "session"
  /\ DoCleanup
  /\ stage' = "cleaned"
  /\ UNCHANGED <<session, mChassis, mWheelJoints, fault>>

\* ~PhysicsWorld() when main returns: Cleanup() again.  A release() on an
\* object that was released is a use after free: the call may go through or
\* stop the process
Destructor ==
  /\ stage = "cleaned"
  /\ DoCleanup
  /\ IF \E o \in EngineObjects : released'[o] > 1
     THEN fault' \in {"none", "useAfterFree"}
     ELSE fault' = fault
  /\ stage' = "destroyed"
  /\ UNCHANGED <<session, mChassis, mWheelJoints>>

NextSetup ==
  \/ PhysicsInitialize
  \/ CreateFieldBody
  \/ RobotInitialize
  \/ SetupSpawn
  \/ SetupIntake
  \/ SetupOuttake
  \/ PhysicsWorldUpdate
  \/ MainCleanup
  \/ Destructor

SpecSetup == InitSetup /\ [][NextSetup]_vars

----------------------------------------------------------------------------
(* Vocabulary of the properties *)

BlockIds == 1..Len(blocks)

\* the positions of the held sequence whose record refers to block i
RecordsOf(i) == {k \in 1..Len(mHeldBlocks) : mHeldBlocks[k].block = i}

FreeBlocks == {i \in BlockIds : ~blocks[i].held}

DistToFront2(i) == Mag2(VSub(GetFrontPosition, blocks[i].p))

Range2 == INTAKE_RANGE * INTAKE_RANGE

\* the category bits a filter word holds
Categories(w) ==
  {c \in {eGROUND, eCHASSIS, eWHEEL, eOBSTACLE, eBLOCK} : BitAnd(w, c) # 0}

PieceRow == {eGROUND, eCHASSIS, eWHEEL, eOBSTACLE, eBLOCK}

HasPieceRow(b) ==
  /\ b.word0 = eBLOCK
  /\ b.word1 < 2 * eBLOCK
  /\ Categories(b.word1) = PieceRow

\* the manipulation state an operation may touch
manip == <<blocks, mHeldBlocks, joints>>

IsIntake == lastOp'.op = "Intake" /\ lastOp' # lastOp
IsOuttake == lastOp'.op = "Outtake" /\ lastOp' # lastOp

----------------------------------------------------------------------------
(* C1: every piece is either Free (held = false, no HeldBlock record refers *)
(* to it) or Held (held = true, exactly one record refers to it): never     *)
(* both, never neither.                                                     *)

C1_FreeXorHeld ==
  \A i \in BlockIds :
    \/ ~blocks[i].held /\ Cardinality(RecordsOf(i)) = 0
    \/ blocks[i].held /\ Cardinality(RecordsOf(i)) = 1

C1_Witness ==
  /\ lastOp.op = "Outtake" /\ lastOp.why = "ok"
  /\ \E i \in BlockIds : blocks[i].held /\ Cardinality(RecordsOf(i)) = 1
  /\ \E i \in BlockIds : ~blocks[i].held /\ RecordsOf(i) = {}
  /\ jointFailures > 0

(* C2: the held sequence never holds more than MAX_HELD_BLOCKS = 8 records, *)
(* and an Intake requested while 8 are held changes nothing: no record, no  *)
(* joint, and every block (the in-range free one included) keeps its held   *)
(* flag, pose, velocities and filter.                                       *)

C2_Capacity ==
  /\ [](Len(mHeldBlocks) \in 0..8)
  /\ [][(IsIntake /\ Len(mHeldBlocks) = 8) =>
          /\ UNCHANGED manip
          /\ lastOp'.why = "full"]_vars

C2_Witness ==
  /\ lastOp.op = "Intake" /\ lastOp.why = "full"
  /\ Len(mHeldBlocks) = 8
  /\ \E i \in FreeBlocks : DistToFront2(i) <= Range2 /\ HasPieceRow(blocks[i])

(* C3: Outtake is LIFO: a successful Intake appends its record (which       *)
(* carries the newest joint) at the end, and an Outtake releases the block  *)
(* of the most recently appended record still held, the other records       *)
(* keeping their order and their blocks staying held.                       *)

Newest(held) ==
  CHOOSE k \in 1..Len(held) : \A j \in 1..Len(held) : held[j].joint <= held[k].joint

Without(held, k) ==
  [j \in 1..(Len(held) - 1) |-> held[IF j < k THEN j ELSE j + 1]]

C3_Lifo ==
  [][/\ (IsIntake /\ lastOp'.why = "ok") =>
          /\ Len(mHeldBlocks') = Len(mHeldBlocks) + 1
          /\ Without(mHeldBlocks', Len(mHeldBlocks')) = mHeldBlocks
          /\ Newest(mHeldBlocks') = Len(mHeldBlocks')
          /\ mHeldBlocks'[Len(mHeldBlocks')].block = lastOp'.block
     /\ (IsOuttake /\ mHeldBlocks # <<>>) =>
          LET k == Newest(mHeldBlocks)
          IN /\ k = Len(mHeldBlocks)
             /\ lastOp'.block = mHeldBlocks[k].block
             /\ ~blocks'[mHeldBlocks[k].block].held
             /\ mHeldBlocks' = Without(mHeldBlocks, k)
             /\ \A j \in 1..Len(mHeldBlocks') :
                  blocks'[mHeldBlocks'[j].block].held]_vars

\* intake order p1, p2, p3, then one Outtake: p3 is out, p1 and p2 remain
C3_Witness ==
  /\ lastOp.op = "Outtake" /\ lastOp.why = "ok"
  /\ Len(mHeldBlocks) = 2
  /\ Len(joints) = 3
  /\ mHeldBlocks[1].joint = 1 /\ mHeldBlocks[2].joint = 2
  /\ joints[3] = "released"
  /\ ~blocks[lastOp.block].held

(* C4: an Intake attaches a block only when the nearest free block is       *)
(* within INTAKE_RANGE of the front position; a nearest block at exactly    *)
(* the range is not rejected for its distance; and while the nearest free   *)
(* block is farther than the range every Intake request leaves the          *)
(* manipulation state as it was.                                            *)

MinFreeDist2 ==
  CHOOSE d \in {DistToFront2(i) : i \in FreeBlocks} :
    \A i \in FreeBlocks : d <= DistToFront2(i)

C4_Range ==
  [][IsIntake =>
       /\ lastOp'.why = "ok" => FreeBlocks # {} /\ MinFreeDist2 <= Range2
       /\ (FreeBlocks # {} /\ MinFreeDist2 > Range2) => UNCHANGED manip
       /\ (FreeBlocks # {} /\ MinFreeDist2 = Range2 /\ mChassis
             /\ Len(mHeldBlocks) < 8)
            => lastOp'.why \in {"ok", "jointfail"}]_vars

\* a block at exactly the range was attached
C4_Witness ==
  /\ lastOp.op = "Intake" /\ lastOp.why = "ok"
  /\ lastOp.dist2 = Range2
  /\ blocks[lastOp.block].held

(* C5: the block a successful Intake attaches is a free block at minimum    *)
(* distance from the front position among all free blocks; the block handed *)
(* to TryIntake is never a held one.                                        *)

C5_Nearest ==
  [][(IsIntake /\ lastOp'.block # 0) =>
       /\ lastOp'.block \in FreeBlocks
       /\ lastOp'.why # "guard" \/ ~mChassis
       /\ \A j \in FreeBlocks : DistToFront2(lastOp'.block) <= DistToFront2(j)
       /\ lastOp'.why = "ok" =>
            /\ mHeldBlocks'[Len(mHeldBlocks')].block = lastOp'.block
            /\ blocks'[lastOp'.block].held]_vars

\* attached the nearest free block although a held block, earlier in the
\* list, was as near; a farther free block was left
C5_Witness ==
  /\ lastOp.op = "Intake" /\ lastOp.why = "ok"
  /\ \E j \in FreeBlocks : DistToFront2(j) > lastOp.dist2
  /\ \E k \in BlockIds : /\ k < lastOp.block
                         /\ blocks[k].held
                         /\ DistToFront2(k) <= lastOp.dist2

(* C6: when the attachment joint cannot be created, Intake leaves the block *)
(* as it was: still free, same pose, velocities and filter, and the held    *)
(* sequence unchanged.                                                      *)

C6_JointFailureLeavesBlock ==
  [][(IsIntake /\ lastOp'.why = "jointfail") =>
       /\ blocks' = blocks
       /\ mHeldBlocks' = mHeldBlocks]_vars

(* C7: after Outtake the ejected block has category Piece and the mask of   *)
(* the Piece row (Ground, Chassis, Wheel, Obstacle, Piece), which is the    *)
(* filter data SpawnBlock gives a block.                                    *)

C7_FilterRestored ==
  (lastOp.op = "Outtake" /\ lastOp.why = "ok") =>
     LET b == blocks[lastOp.block]
     IN /\ HasPieceRow(b)
        /\ b.word0 = SpawnBlock(PxVec3Zero).word0
        /\ b.word1 = SpawnBlock(PxVec3Zero).word1

C7_Witness ==
  /\ lastOp.op = "Outtake" /\ lastOp.why = "ok"
  /\ ~blocks[lastOp.block].held
  /\ blocks[lastOp.block].p = EjectPos
  /\ chassisPose # StartPose

(* C8: a held block carries zero category and zero mask, so the filter      *)
(* shader suppresses its pair with every non-trigger shape; a free block    *)
(* carries the Piece row.                                                   *)

C8_HeldZeroFreePieceRow ==
  \A i \in BlockIds :
    /\ blocks[i].held =>
         /\ blocks[i].word0 = 0 /\ blocks[i].word1 = 0
         /\ \A w0, w1 \in {0, eGROUND, eCHASSIS, eWHEEL, eOBSTACLE, eBLOCK,
                           2 * eBLOCK - 1} :
              VehicleFilterShader(FALSE, blocks[i].word0, blocks[i].word1,
                                  FALSE, w0, w1) = "suppress"
    /\ ~blocks[i].held => HasPieceRow(blocks[i])


(* C9: drive inputs are clamped, never rejected: SetDriveInput stores the   *)
(* values it is given whatever their size, and after the next Update every  *)
(* left (right) joint's velocity target is 20 rad/s times the left (right)  *)
(* value clamped to [-1, 1], so (2, -2) gives the targets of (1, -1).       *)

ClampedToUnit(x) == IF x > 1 THEN 1 ELSE IF x < 0 - 1 THEN 0 - 1 ELSE x

C9_Clamping ==
  /\ []((lastOp.op = "Update" /\ mChassis) =>
          /\ Len(mWheelJoints) = 8
          /\ \A i \in 1..4 :
               mWheelJoints[i].vel = 20 * ClampedToUnit(mThrottleInput)
          /\ \A i \in 5..8 :
               mWheelJoints[i].vel = 20 * ClampedToUnit(mTurnInput))
  /\ [][(lastOp'.op = "SetDriveInput" /\ lastOp' # lastOp) =>
          /\ mThrottleInput' = lastOp'.left
          /\ mTurnInput' = lastOp'.right]_vars

\* SetDriveInput(2, -2), then Update: the targets of (1, -1)
C9_Witness ==
  /\ lastOp.op = "Update"
  /\ mChassis
  /\ mThrottleInput = 2 /\ mTurnInput = 0 - 2
  /\ mWheelJoints[1].vel = 20 /\ mWheelJoints[8].vel = 0 - 20

(* C10: a frame whose drain starts with a in the accumulator calls          *)
(* Robot::Update and PhysicsWorld::Update floor(a / step) times each and    *)
(* leaves a - floor(a / step) * step, which stays in the accumulator until  *)
(* the next frame adds its dt to it.                                        *)

Count(seq, x) == Cardinality({k \in 1..Len(seq) : seq[k] = x})

C10_FixedStepDrain ==
  /\ [](pc = "render" =>
          LET n == accStart \div physicsTimestep
          IN /\ Count(calls, "Robot::Update") = n
             /\ Count(calls, "PhysicsWorld::Update") = n
             /\ Len(calls) = 2 * n
             /\ physicsAccumulator = accStart - n * physicsTimestep)
  /\ [][(pc = "accumulate" /\ pc' = "drain") =>
          /\ physicsAccumulator' = physicsAccumulator + dt
          /\ accStart' = physicsAccumulator']_vars
  /\ [][pc \notin {"accumulate", "physics"} =>
          UNCHANGED physicsAccumulator]_vars

\* a = 2.5 steps: two calls of each, half a step left
C10_Witness ==
  /\ pc = "render"
  /\ 2 * accStart = 5 * physicsTimestep
  /\ Count(calls, "Robot::Update") = 2
  /\ Count(calls, "PhysicsWorld::Update") = 2
  /\ 2 * physicsAccumulator = physicsTimestep

(* C11: in the drain the calls strictly alternate Robot::Update,            *)
(* PhysicsWorld::Update, starting with Robot::Update; a physics step runs   *)
(* only right after the Robot::Update of the same step, when every wheel    *)
(* joint carries the target of the drive input that SetDriveInput stored    *)
(* earlier in the same frame.                                               *)

\* the joint targets that Update derives from the stored drive input
TargetsOfStoredInput ==
  /\ Len(mWheelJoints) = 8
  /\ \A i \in 1..4 :
       mWheelJoints[i].vel = 20 * ClampedToUnit(mThrottleInput)
  /\ \A i \in 5..8 :
       mWheelJoints[i].vel = 20 * ClampedToUnit(mTurnInput)

IsPhysicsCall ==
  /\ Len(calls') = Len(calls) + 1
  /\ calls'[Len(calls')] = "PhysicsWorld::Update"

C11_DrainAlternation ==
  /\ [](\A k \in 1..Len(calls) :
          calls[k] = IF k % 2 = 1 THEN "Robot::Update"
                     ELSE "PhysicsWorld::Update")
  /\ [][IsPhysicsCall =>
          /\ calls # <<>>
          /\ calls[Len(calls)] = "Robot::Update"
          /\ inputStored
          /\ mChassis => TargetsOfStoredInput]_vars

\* three steps drained in a frame that stored left = 1, right = -1
C11_Witness ==
  /\ pc = "render"
  /\ Len(calls) = 6
  /\ calls[5] = "Robot::Update" /\ calls[6] = "PhysicsWorld::Update"
  /\ inputStored
  /\ mChassis
  /\ mThrottleInput = 1 /\ mTurnInput = 0 - 1
  /\ mWheelJoints[1].vel = 20 /\ mWheelJoints[8].vel = 0 - 20

(* C12: spawn, intake and outtake are sampled once per frame, before the    *)
(* drain, and take effect in the step that samples them: a spawn edge adds  *)
(* its block, an intake edge with a free block in range attaches it, an     *)
(* outtake edge with a block held detaches the newest, all before the       *)
(* frame's first physics step; outside the four handlers (in particular     *)
(* between two physics steps, and in a later frame without a new edge) no   *)
(* block is added, attached or detached.                                    *)

\* what spawn, attach and detach change
Attachment ==
  <<Len(blocks), [i \in BlockIds |-> blocks[i].held], mHeldBlocks, joints>>

EventHandlers == {"spawnR", "spawnB", "intake", "outtake"}

C12_EventsBeforeDrain ==
  /\ [](pc \in EventHandlers => calls = <<>>)
  /\ [][pc \notin EventHandlers => UNCHANGED Attachment]_vars
  /\ [][(pc = "spawnR" /\ ~rWasPressed /\ rWasPressed') =>
          /\ Len(blocks') = Len(blocks) + 1
          /\ ~blocks'[Len(blocks')].held]_vars
  /\ [][(pc = "spawnB" /\ ~bWasPressed /\ bWasPressed') =>
          /\ Len(blocks') = Len(blocks) + 1
          /\ ~blocks'[Len(blocks')].held]_vars
  /\ [][(/\ pc = "intake" /\ ~fWasPressed /\ fWasPressed'
          /\ mChassis /\ Len(mHeldBlocks) < 8
          /\ \E i \in FreeBlocks : DistToFront2(i) <= Range2) =>
          /\ Len(mHeldBlocks') = Len(mHeldBlocks) + 1
          /\ blocks'[mHeldBlocks'[Len(mHeldBlocks')].block].held
          /\ joints'[mHeldBlocks'[Len(mHeldBlocks')].joint] = "live"]_vars
  /\ [][(pc = "outtake" /\ ~gWasPressed /\ gWasPressed'
          /\ mHeldBlocks # <<>>) =>
          /\ Len(mHeldBlocks') = Len(mHeldBlocks) - 1
          /\ ~blocks'[mHeldBlocks[Len(mHeldBlocks)].block].held
          /\ joints'[mHeldBlocks[Len(mHeldBlocks)].joint] = "released"]_vars

\* a block spawned, taken and ejected again, and then physics steps drained
C12_Witness ==
  /\ pc = "render"
  /\ Len(calls) >= 4
  /\ rWasPressed /\ fWasPressed /\ gWasPressed
  /\ Len(blocks) = 1 /\ ~blocks[1].held
  /\ joints = <<"released">>
  /\ mHeldBlocks = <<>>

(* C13: Intake and Outtake are edge-triggered: during one press of F (of G) *)
(* at most one Intake (Outtake) is attempted, however many frames the key   *)
(* stays down; a press of F that began while the intake was full attempts   *)
(* no Intake at all, also on the later frames of the press on which an      *)
(* Outtake has made room.                                                   *)

C13_EdgeTriggered ==
  /\ fAttempts <= 1
  /\ gAttempts <= 1
  /\ fullAtPress => fAttempts = 0

\* F pressed while 8 were held and still down one frame after the Outtake
\* that made room: a free block is in range and no Intake was attempted
C13_Witness ==
  /\ pc = "outtake"
  /\ fWasPressed /\ fullAtPress /\ fAttempts = 0
  /\ lastOp.op = "Outtake" /\ lastOp.why = "ok"
  /\ gWasPressed /\ gAttempts = 1
  /\ Len(mHeldBlocks) = 7
  /\ \E i \in FreeBlocks : DistToFront2(i) <= Range2

(* C14: for two shapes that are not triggers the shader lets the pair       *)
(* collide (contact response and touch-found notification) exactly when     *)
(* A's category meets B's mask and B's category meets A's mask, and         *)
(* suppresses it otherwise; the answer is the same with A and B swapped;    *)
(* when either shape is a trigger the pair passes with trigger-only flags,  *)
(* whatever the masks.                                                      *)

\* the words x and y have a bit in common
Meets(x, y) ==
  \E k \in 0..4 : ((x \div (2 ^ k)) % 2 = 1) /\ ((y \div (2 ^ k)) % 2 = 1)

IsFilterCall == lastOp.op \in {"FilterScene", "FilterProbe"}

C14_FilterRule ==
  IsFilterCall =>
    LET a == lastOp.a
        b == lastOp.b
        collide == Meets(a.word0, b.word1) /\ Meets(b.word0, a.word1)
    IN /\ (~a.trigger /\ ~b.trigger /\ collide) =>
            /\ lastOp.ret = "eDEFAULT"
            /\ lastOp.pairFlags = {"eCONTACT_DEFAULT", "eNOTIFY_TOUCH_FOUND"}
       /\ (~a.trigger /\ ~b.trigger /\ ~collide) =>
            /\ lastOp.ret = "eSUPPRESS"
            /\ lastOp.pairFlags = {}
       /\ (a.trigger \/ b.trigger) =>
            /\ lastOp.ret = "eDEFAULT"
            /\ lastOp.pairFlags = {"eTRIGGER_DEFAULT"}
       /\ lastOp.why = VehicleFilterShader(b.trigger, b.word0, b.word1,
                                           a.trigger, a.word0, a.word1)

\* a pair in which only one side accepts the other is suppressed
C14_Witness ==
  /\ lastOp.op = "FilterProbe"
  /\ ~lastOp.a.trigger /\ ~lastOp.b.trigger
  /\ Meets(lastOp.a.word0, lastOp.b.word1)
  /\ ~Meets(lastOp.b.word0, lastOp.a.word1)
  /\ lastOp.b.word0 # 0 /\ lastOp.a.word1 # 0
  /\ lastOp.ret = "eSUPPRESS"

(* C15: with the filter data given at session start to the field, the       *)
(* chassis, the wheels and the spawned blocks, the shader yields the policy *)
(* table: Ground with Chassis, Wheel and Piece; Chassis with Ground,        *)
(* Chassis and Piece; Wheel with Ground and Piece; Piece with Ground,       *)
(* Chassis, Wheel and Piece; never Wheel with Chassis or Wheel with Wheel;  *)
(* and X accepts Y exactly when Y accepts X.                                *)

PolicyTable ==
  {<<"Ground", "Chassis">>, <<"Ground", "Wheel">>, <<"Ground", "Piece">>,
   <<"Chassis", "Ground">>, <<"Chassis", "Chassis">>, <<"Chassis", "Piece">>,
   <<"Wheel", "Ground">>, <<"Wheel", "Piece">>,
   <<"Piece", "Ground">>, <<"Piece", "Chassis">>, <<"Piece", "Wheel">>,
   <<"Piece", "Piece">>}

C16_InertWithoutChassis ==
  /\ [](~mChassis =>
          /\ mHeldBlocks = <<>>
          /\ joints = <<>>
          /\ mWheelJoints = <<>>
          /\ GetTransformMatrix(1) = Identity4
          /\ GetFrontPosition = <<0, 0, 0>>
          /\ ~OuttakeFaults)
  /\ [][~mChassis =>
          /\ ~mChassis'
          /\ UNCHANGED <<mWheelJoints, mHeldBlocks, joints>>
          /\ lastOp'.op \in {"Intake", "Outtake", "Update", "SetDriveInput"}
               => UNCHANGED blocks
          /\ IsIntake => lastOp'.why \in {"guard", "nofree"}
          /\ IsOuttake => lastOp'.why = "empty"]_vars

\* without a chassis: an Intake refused although a block is within range of
\* the front position, after a drive input was stored and Update was called
C16_Witness ==
  /\ ~mChassis
  /\ lastOp.op = "Intake" /\ lastOp.why = "guard"
  /\ \E i \in FreeBlocks : DistToFront2(i) <= Range2
  /\ mThrottleInput # 0
  /\ mWheelJoints = <<>>

(* C17: an operation whose precondition is not met is a silent no-op: an    *)
(* Outtake with nothing held, and an Intake with no free block or with the  *)
(* nearest free block out of range, leave every block's held flag, pose,    *)
(* velocities and filter, every joint and the held sequence as they were.   *)

C17_NoOpWithoutPrecondition ==
  /\ [][(lastOp'.op = "Outtake" /\ mHeldBlocks = <<>>) =>
          UNCHANGED manip /\ lastOp'.why = "empty"]_vars
  /\ [][(lastOp'.op = "Intake" /\ FreeBlocks = {}) =>
          UNCHANGED manip /\ lastOp'.why \in {"nofree", "full"}]_vars
  /\ [][(lastOp'.op = "Intake" /\ FreeBlocks # {}
          /\ MinFreeDist2 > Range2) =>
          UNCHANGED manip /\ lastOp'.why \in {"range", "full", "guard"}]_vars

\* an Intake refused for range while another block is held
C17_Witness ==
  /\ lastOp.op = "Intake" /\ lastOp.why = "range"
  /\ mHeldBlocks # <<>>
  /\ FreeBlocks # {}
  /\ MinFreeDist2 > Range2

(* C18: right after a successful Intake of block P the held count has      *)
(* grown by one, P is held, P's pose is the chassis pose (centre and        *)
(* orientation) and P's linear and angular velocities are zero; right after *)
(* the Outtake that releases P, P is free, P has the chassis orientation,   *)
(* and P's position is the chassis position plus the forward axis times     *)
(* (half the chassis length + 0.15 m), with the height set to the chassis   *)
(* height.                                                                  *)

\* the forward axis of each orientation
ForwardAxis(q) ==
  CASE q = "I"       -> <<0, 0, 1>>
    [] q = "Yaw90"   -> <<1, 0, 0>>
    [] q = "Yaw180"  -> <<0, 0, 0 - 1>>
    [] q = "PitchUp" -> <<0, 1, 0>>

\* half the chassis length 0.175 m + the clearance 0.15 m, in units
EjectReach == 7 + 6

C18_Poses ==
  /\ [][(IsIntake /\ lastOp'.why = "ok") =>
          LET P == blocks'[lastOp'.block]
          IN /\ Len(mHeldBlocks') = Len(mHeldBlocks) + 1
             /\ ~blocks[lastOp'.block].held /\ P.held
             /\ P.p = chassisPose.p /\ P.q = chassisPose.q
             /\ P.linVel = <<0, 0, 0>> /\ P.angVel = <<0, 0, 0>>]_vars
  /\ [][(IsOuttake /\ lastOp'.why = "ok") =>
          LET P == blocks'[lastOp'.block]
              f == ForwardAxis(chassisPose.q)
          IN /\ Len(mHeldBlocks') = Len(mHeldBlocks) - 1
             /\ blocks[lastOp'.block].held /\ ~P.held
             /\ P.q = chassisPose.q
             /\ P.p[1] = chassisPose.p[1] + f[1] * EjectReach
             /\ P.p[2] = chassisPose.p[2]
             /\ P.p[3] = chassisPose.p[3] + f[3] * EjectReach]_vars

\* a block ejected by a chassis that was turned a quarter turn after the
\* intake
C18_Witness ==
  /\ lastOp.op = "Outtake" /\ lastOp.why = "ok"
  /\ chassisPose.q = "Yaw90"
  /\ blocks[lastOp.block].p = <<chassisPose.p[1] + 13, chassisPose.p[2],
                                chassisPose.p[3]>>
  /\ blocks[lastOp.block].q = "Yaw90"
  /\ ~blocks[lastOp.block].held

(* C19: after a successful initialization the robot has 8 wheels and 8      *)
(* driven joints, 4 per side, whatever operations follow; between           *)
(* operations the four joints of a side always carry one velocity target    *)
(* and every joint the torque limit; after Update the target of a side is   *)
(* its clamped input times 20 rad/s; and an Update repeated with the same   *)
(* stored input changes no joint.                                           *)

LeftJoints == 1..4
RightJoints == 5..8

C19_EightWheels ==
  mChassis =>
    /\ Len(mWheels) = 8
    /\ Len(mWheelJoints) = 8
    /\ \A i, j \in LeftJoints : mWheelJoints[i].vel = mWheelJoints[j].vel
    /\ \A i, j \in RightJoints : mWheelJoints[i].vel = mWheelJoints[j].vel
    /\ \A i \in 1..8 : mWheelJoints[i].forceLimit = 500
    /\ lastOp.op = "Update" =>
         /\ mWheelJoints[1].vel = 20 * ClampedToUnit(mThrottleInput)
         /\ mWheelJoints[5].vel = 20 * ClampedToUnit(mTurnInput)
         /\ UpdateJoints = mWheelJoints

\* after blocks were taken and input (2, -1) stored: Update gives 20 to the
\* left side and -20 to the right side
C19_Witness ==
  /\ mChassis
  /\ lastOp.op = "Update"
  /\ mHeldBlocks # <<>>
  /\ mThrottleInput = 2 /\ mTurnInput = 0 - 1
  /\ \A i \in LeftJoints : mWheelJoints[i].vel = 20
  /\ \A i \in RightJoints : mWheelJoints[i].vel = 0 - 20

(* C20: SetDriveInput is a pure setter: it stores the left and right value  *)
(* and changes nothing else (no joint target or torque limit, no chassis,   *)
(* block, joint or held record); the joints change only in Update, so a new *)
(* input reaches them at the next Update and not before.                    *)

IsSetDriveInput == lastOp'.op = "SetDriveInput" /\ lastOp' # lastOp

C20_PureSetter ==
  /\ [][IsSetDriveInput =>
          /\ mThrottleInput' = lastOp'.left
          /\ mTurnInput' = lastOp'.right
          /\ UNCHANGED <<mWheelJoints, world>>]_vars
  /\ [][mWheelJoints' # mWheelJoints => lastOp'.op = "Update"]_vars
  /\ [](lastOp.op = "Update" /\ mChassis =>
          /\ mWheelJoints[1].vel = 20 * ClampedToUnit(mThrottleInput)
          /\ mWheelJoints[8].vel = 20 * ClampedToUnit(mTurnInput))

\* input (-2, 1) stored while a block is held: the joints still carry the
\* targets of the input (1, -1) of the last Update
C20_Witness ==
  /\ mChassis
  /\ lastOp.op = "SetDriveInput"
  /\ lastOp.left = 0 - 2 /\ lastOp.right = 1
  /\ mThrottleInput = 0 - 2 /\ mTurnInput = 1
  /\ mWheelJoints[1].vel = 20 /\ mWheelJoints[8].vel = 0 - 20
  /\ mHeldBlocks # <<>>

(* C21: every call of Robot::Update and of PhysicsWorld::Update gets the    *)
(* fixed step 1/60 s as its dt, whatever the frame's elapsed time: not the  *)
(* frame time, not the clamped stall time, not what the accumulator holds.  *)

C21_FixedDt ==
  /\ Len(stepDts) = Len(calls)
  /\ \A k \in 1..Len(stepDts) : stepDts[k] = 2

\* the frame after a stall (elapsed time clamped to 0.1 s): twelve calls,
\* each with the fixed step
C21_Witness ==
  /\ pc = "render"
  /\ dt = 12
  /\ Len(calls) = 12
  /\ stepDts[1] = 2 /\ stepDts[12] = 2

(* C22: the time a frame adds to the accumulator is at most 0.1 s; when a   *)
(* frame's drain has ended the accumulator is >= 0 and below the step; so a *)
(* frame runs at most 6 steps however long the stall before it, and every   *)
(* drain that starts comes to its end.                                      *)

C22_BoundedDrain ==
  /\ [](dt >= 0 /\ dt <= 12)
  /\ [][pc = "accumulate" =>
          physicsAccumulator' - physicsAccumulator <= 12]_vars
  /\ [](pc = "render" => physicsAccumulator >= 0 /\ physicsAccumulator < 2)
  /\ [](Count(calls, "PhysicsWorld::Update") <= 6)
  /\ (pc = "drain" ~> pc = "render")

\* a stall on top of half a step left over: six steps, half a step left
C22_Witness ==
  /\ pc = "render"
  /\ dt = 12
  /\ accStart = 13
  /\ Count(calls, "PhysicsWorld::Update") = 6
  /\ physicsAccumulator = 1

(* C23: a block changes state only from Free to Held, by a successful       *)
(* Intake of that block, and from Held to Free, by the Outtake that ejects  *)
(* it; an ejected block is again a candidate of the intake search, so the   *)
(* cycle repeats; and from any state with k blocks held, k Outtake calls in *)
(* a row free every block and empty the held sequence.                      *)

\* the held flags after as many Outtake calls as there are records
RECURSIVE FlagsAfterOuttakes(_, _)
FlagsAfterOuttakes(bs, held) ==
  IF held = <<>> THEN bs
  ELSE FlagsAfterOuttakes([bs EXCEPT ![Back(held).block] = MarkFree(@)],
                          PopBack(held))

C23_PieceCycle ==
  /\ [][\A i \in BlockIds :
          /\ (~blocks[i].held /\ blocks'[i].held) =>
               /\ IsIntake /\ lastOp'.why = "ok" /\ lastOp'.block = i
          /\ (blocks[i].held /\ ~blocks'[i].held) =>
               /\ IsOuttake /\ lastOp'.why = "ok" /\ lastOp'.block = i]_vars
  /\ []((lastOp.op = "Outtake" /\ lastOp.why = "ok") =>
          /\ ~blocks[lastOp.block].held
          /\ blocks[lastOp.block].body
          /\ lastOp.block \in FreeBlocks)
  /\ [][(IsOuttake /\ mHeldBlocks # <<>>) =>
          Len(mHeldBlocks') = Len(mHeldBlocks) - 1]_vars
  /\ [](\A i \in BlockIds :
          ~FlagsAfterOuttakes(blocks, mHeldBlocks)[i].held)

\* the one block of the world taken, ejected and taken again
C23_Witness ==
  /\ Len(blocks) = 1
  /\ Len(joints) = 2
  /\ joints[1] = "released" /\ joints[2] = "live"
  /\ mHeldBlocks = <<[block |-> 1, joint |-> 2]>>
  /\ blocks[1].held
  /\ lastOp.op = "Intake" /\ lastOp.why = "ok"

(* C24: among several free blocks at the same least distance from the front *)
(* position, the Intake acts on the one that comes first in the block list  *)
(* (the earliest spawned).                                                  *)

\* the free blocks at the least distance
NearestFree == {i \in FreeBlocks : DistToFront2(i) = MinFreeDist2}

C24_FirstMinimum ==
  [][(IsIntake /\ lastOp'.why \in {"ok", "jointfail", "range", "guard"}) =>
       /\ lastOp'.block \in NearestFree
       /\ \A j \in NearestFree : lastOp'.block <= j]_vars

\* a block taken while a later block stays free at the very distance the
\* taken one had
C24_Witness ==
  /\ lastOp.op = "Intake" /\ lastOp.why = "ok"
  /\ \E j \in FreeBlocks :
       /\ j > lastOp.block
       /\ DistToFront2(j) = lastOp.dist2
       /\ \A k \in FreeBlocks : DistToFront2(k) >= lastOp.dist2

(* C25: when PhysicsWorld::Initialize stopped early (no foundation, or no   *)
(* physics object) the physics service is inert and the session goes on:    *)
(* Update does nothing, Cleanup releases only what was created, and the     *)
(* robot initialization, spawn, intake and outtake that follow dereference  *)
(* no null pointer.                                                         *)

SetupFailed == stage # "constructed" /\ ~physx.mPhysics /\ ~physx.mScene

C25_SetupFailureInert ==
  /\ [](SetupFailed => fault = "none")
  /\ [][(SetupFailed /\ lastOp'.op = "Physics") => UNCHANGED world]_vars
  /\ [][(SetupFailed /\ stage = "session" /\ stage' = "cleaned") =>
          \A o \in EngineObjects :
            released'[o] = IF physx[o] THEN 1 ELSE 0]_vars

(* C26: no engine object of PhysicsWorld (scene, dispatcher, physics, PVD   *)
(* connection, its transport, foundation) is released more than once: the  *)
(* Cleanup() of main followed by the Cleanup() of the destructor releases   *)
(* nothing a second time.                                                   *)

C26_ReleasedAtMostOnce ==
  \A o \in EngineObjects : released[o] <= 1


(* C27: a frame that handles a framebuffer resize leaves the simulation     *)
(* alone: the frame ends at the resize branch without SetDriveInput, spawn, *)
(* Intake, Outtake or physics step; the accumulator and the four debounce   *)
(* flags keep their values and the frame's elapsed time is dropped; in the  *)
(* next frame, a control that was up at its last sample and is held now     *)
(* fires its edge.                                                          *)

ResizeFrame == pc = "input" /\ framebufferResized

C27_ResizeFrame ==
  /\ [][ResizeFrame =>
          /\ pc' = "poll"
          /\ dt' = 0
          /\ ~inputStored'
          /\ calls' = <<>>
          /\ UNCHANGED <<world, lastOp, drive, physicsAccumulator, keys>>]_vars
  /\ [][(resizedLast /\ pc = "accumulate") =>
          physicsAccumulator' = physicsAccumulator + dt]_vars
  /\ [][(resizedLast /\ pc = "spawnR" /\ ~rWasPressed /\ rWasPressed') =>
          lastOp'.op = "Spawn"]_vars
  /\ [][(resizedLast /\ pc = "spawnB" /\ ~bWasPressed /\ bWasPressed') =>
          lastOp'.op = "Spawn"]_vars
  /\ [][(resizedLast /\ pc = "intake" /\ ~fWasPressed /\ fWasPressed'
           /\ ~IsIntakeFull) =>
          lastOp'.op = "Intake"]_vars
  /\ [][(resizedLast /\ pc = "outtake" /\ ~gWasPressed /\ gWasPressed') =>
          lastOp'.op = "Outtake"]_vars

\* after a resize frame that dropped the time left in the accumulator's
\* frame, the held F key has fired its edge and taken a block in
C27_Witness ==
  /\ resizedLast
  /\ pc = "outtake"
  /\ fWasPressed
  /\ lastOp.op = "Intake" /\ lastOp.why = "ok"
  /\ Len(mHeldBlocks) = 1
  /\ physicsAccumulator > 0


(* C28: within one frame the key handlers run in the order spawn A, spawn   *)
(* B, Intake, Outtake.  A block spawned in a frame is a candidate of that   *)
(* frame's Intake; an Outtake that follows a successful Intake of the same  *)
(* frame releases the block just taken in, so the held count is what it was *)
(* before the Intake; after an Intake that did nothing, or no Intake, the   *)
(* Outtake releases the most recent held block.                             *)

TakenThisFrame ==
  pc = "outtake" /\ lastOp.op = "Intake" /\ lastOp.why = "ok"

SpawnedThisFrame == pc = "intake" /\ lastOp.op = "Spawn"

C28_FrameOrder ==
  /\ [][/\ pc = "spawnR" => pc' = "spawnB"
        /\ pc = "spawnB" => pc' = "intake"
        /\ pc = "intake" => pc' = "outtake"
        /\ pc = "outtake" => pc' = "accumulate"
        /\ (lastOp' # lastOp /\ lastOp'.op = "Spawn") =>
             pc \in {"spawnR", "spawnB"}
        /\ IsIntake => pc = "intake"
        /\ IsOuttake => pc = "outtake"]_vars
  /\ [][(SpawnedThisFrame /\ ~fWasPressed /\ fWasPressed' /\ ~IsIntakeFull
           /\ IsCandidate(blocks[lastOp.block])) =>
          /\ lastOp'.op = "Intake"
          /\ lastOp'.why # "nofree"
          /\ lastOp'.block \in BlockIds
          /\ DistToFront2(lastOp'.block) <= DistToFront2(lastOp.block)
          /\ mChassis =>
               /\ lastOp'.why = "ok"
               /\ Len(mHeldBlocks') = Len(mHeldBlocks) + 1]_vars
  /\ [][(TakenThisFrame /\ ~gWasPressed /\ gWasPressed') =>
          /\ lastOp'.op = "Outtake"
          /\ lastOp'.block = lastOp.block
          /\ ~blocks'[lastOp.block].held
          /\ mHeldBlocks' = Without(mHeldBlocks, Len(mHeldBlocks))]_vars
  /\ [][(pc = "outtake" /\ ~TakenThisFrame /\ mHeldBlocks # <<>>
           /\ ~gWasPressed /\ gWasPressed') =>
          /\ lastOp'.op = "Outtake"
          /\ lastOp'.block = mHeldBlocks[Newest(mHeldBlocks)].block
          /\ Len(mHeldBlocks') = Len(mHeldBlocks) - 1]_vars

\* one block was held; a second one was spawned, taken in and released,
\* and the first is held as before
C28_Witness ==
  /\ pc = "accumulate"
  /\ lastOp.op = "Outtake" /\ lastOp.why = "ok" /\ lastOp.block = 2
  /\ bWasPressed /\ fWasPressed /\ gWasPressed
  /\ Len(mHeldBlocks) = 1 /\ mHeldBlocks[1].block = 1
  /\ joints = <<"live", "released">>
  /\ ~blocks[2].held


(* C29: the life of an attachment joint.  Every joint created by an Intake  *)
(* is live and stored in exactly one record until the Outtake that pops     *)
(* that record releases it, once; no record refers to a released joint, to  *)
(* no joint, or to a block without a body; a released joint stays released  *)
(* and unreferenced.                                                        *)

JointIds == 1..Len(joints)

\* the positions of the held sequence whose record stores joint j
RecordsWith(j) == {k \in 1..Len(mHeldBlocks) : mHeldBlocks[k].joint = j}

C29_JointLifecycle ==
  /\ [](\A j \in JointIds :
          \/ joints[j] = "live" /\ Cardinality(RecordsWith(j)) = 1
          \/ joints[j] = "released" /\ RecordsWith(j) = {})
  /\ [](\A k \in 1..Len(mHeldBlocks) :
          /\ mHeldBlocks[k].joint \in JointIds
          /\ mHeldBlocks[k].block \in BlockIds
          /\ blocks[mHeldBlocks[k].block].body)
  /\ [][/\ Len(joints') >= Len(joints)
        /\ \A j \in JointIds :
             /\ joints[j] = "released" => joints'[j] = "released"
             /\ (joints[j] = "live" /\ joints'[j] = "released") =>
                  /\ IsOuttake
                  /\ Back(mHeldBlocks).joint = j
                  /\ RecordsWith(j)' = {}
        /\ Len(joints') > Len(joints) =>
             /\ IsIntake /\ lastOp'.why = "ok"
             /\ Len(joints') = Len(joints) + 1
             /\ joints'[Len(joints')] = "live"
             /\ Back(mHeldBlocks').joint = Len(joints')
        /\ (IsOuttake /\ mHeldBlocks # <<>>) =>
             joints'[Back(mHeldBlocks).joint] = "released"]_vars

\* three joints were created, one creation failed; the second intake's joint
\* was released by an Outtake, the two others are live in their records
C29_Witness ==
  /\ Len(joints) = 3
  /\ joints[2] = "released"
  /\ Len(mHeldBlocks) = 2
  /\ mHeldBlocks[1].joint = 1 /\ mHeldBlocks[2].joint = 3
  /\ jointFailures > 0


(* C30: Intake and Outtake touch only the block they select.  A successful  *)
(* Intake leaves every other block as it was (held flag, filter words,      *)
(* pose), keeps every record at its position and appends one; an Outtake    *)
(* leaves every other block as it was, so that each remaining record's      *)
(* block is held with both filter words zero and its joint live, and no     *)
(* free block changes.                                                      *)

\* every block but block i is the same before and after the step
OthersUntouched(i) ==
  /\ Len(blocks') = Len(blocks)
  /\ \A o \in BlockIds \ {i} : blocks'[o] = blocks[o]

C30_OnlySelected ==
  [][/\ (IsIntake /\ lastOp'.why = "ok") =>
          /\ OthersUntouched(lastOp'.block)
          /\ Len(mHeldBlocks') = Len(mHeldBlocks) + 1
          /\ \A k \in 1..Len(mHeldBlocks) : mHeldBlocks'[k] = mHeldBlocks[k]
          /\ \A j \in 1..Len(joints) : joints'[j] = joints[j]
     /\ (IsOuttake /\ mHeldBlocks # <<>>) =>
          LET sel == mHeldBlocks[Len(mHeldBlocks)]
          IN /\ OthersUntouched(sel.block)
             /\ \A i \in FreeBlocks : blocks'[i] = blocks[i]
             /\ Len(mHeldBlocks') = Len(mHeldBlocks) - 1
             /\ \A k \in 1..Len(mHeldBlocks') :
                  /\ mHeldBlocks'[k] = mHeldBlocks[k]
                  /\ blocks'[mHeldBlocks'[k].block].held
                  /\ blocks'[mHeldBlocks'[k].block].word0 = 0
                  /\ blocks'[mHeldBlocks'[k].block].word1 = 0
                  /\ joints'[mHeldBlocks'[k].joint] = "live"
             /\ \A j \in 1..Len(joints) :
                  j # sel.joint => joints'[j] = joints[j]]_vars

\* an Outtake was done with two other blocks held and another block free
C30_Witness ==
  /\ lastOp.op = "Outtake" /\ lastOp.why = "ok"
  /\ Len(mHeldBlocks) >= 2
  /\ \A k \in 1..Len(mHeldBlocks) :
       blocks[mHeldBlocks[k].block].word0 = 0
  /\ \E i \in FreeBlocks : i # lastOp.block /\ blocks[i].word0 = eBLOCK

====
